---- MODULE Spec2Model ----
(***************************************************************************)
(* Model of python_threadpool_manager: ThreadPoolManager (the registry),   *)
(* ManagedThreadPool (a pool and its resize protocol) and ManagedTask (the *)
(* task state machine), together with the behaviour of the                 *)
(* concurrent.futures executor and futures they are built on.              *)
(*                                                                         *)
(* Objects are kept in sequences: pool[p], task[t], fut[f] and exec[e] are *)
(* the p-th pool, t-th task, f-th future and e-th executor constructed;    *)
(* the index stands for the uuid4 / object identity.  A method that runs   *)
(* under a lock without waiting is one action; resize, shutdown(wait=True) *)
(* and cancel are split where other threads can interleave (the worker     *)
(* threads of an executor take no lock).  A call whose returned value is   *)
(* of interest leaves it in ret, which the caller takes in the next step.  *)
(***************************************************************************)
EXTENDS Integers, Sequences, FiniteSets, TLC

\* ---- bounds of the model ----
MaxPools == 1
MaxTasks == 2
MaxFuts == 3
MaxExecs == 2
MaxCap == 2
MaxWrites == 2

\* ---- program constants ----
DefaultWorkers == 5

NoFuture == 0

VARIABLES
    mpools,   \* ThreadPoolManager.pools: ids of the pools held by the registry
    mtasks,   \* ThreadPoolManager.tasks: ids of the tasks in the global index
    mlock,    \* ThreadPoolManager._lock: "free" or the operation holding it
    pool,     \* the ManagedThreadPool objects
    task,     \* the ManagedTask objects
    fut,      \* the Future objects with the position of the worker running them
    exec,     \* the ThreadPoolExecutor objects
    rz,       \* the resize call in progress
    cn,       \* the cancel call in progress
    sd,       \* the shutdown(wait=True) call in progress
    ret,      \* the call that has just returned and what it returned
    cw,       \* the cleanup thread: its position, the stop event, whether a sweep raised
    gi,       \* the get_info call in progress
    th        \* the threads inside a call that takes locks, and who owns each lock

vars == <<mpools, mtasks, mlock, pool, task, fut, exec, rz, cn, sd, ret, cw, gi, th>>

PoolIds == 1..Len(pool)
TaskIds == 1..Len(task)
FutIds == 1..Len(fut)
ExecIds == 1..Len(exec)

\* datetime.now(): a logical clock that advances with every object constructed.
Now == Len(task) + Len(fut) + Len(exec)

\* ---- ManagedTask ----
TerminalStatus == {"completed", "failed", "cancelled"}

is_done(tk) == tk.status \in TerminalStatus

\* f"task-{task_id[:8]}" / f"pool-{pool_id[:8]}" against a name given by the caller
AutoName(id) == [auto |-> TRUE, n |-> id]
GivenName(k) == [auto |-> FALSE, n |-> k]
PoolNameInputs == {1}
TaskNameInputs == {0}
NameOf(k, id) == IF k = 0 THEN AutoName(id) ELSE GivenName(k)

\* one more write of a timestamp (datetime.now() differs at every call); the
\* count stops at MaxWrites
Written(n) == IF n < MaxWrites THEN n + 1 ELSE n

\* start_time and end_time are kept as the number of times they were written
\* (0: still None); result and exception as whether they were assigned
NewTask(id, nm, p) ==
    [task_id |-> id, name |-> nm, pool_id |-> p, future |-> NoFuture,
     submit_time |-> Now, status |-> "pending", exception |-> FALSE,
     result |-> FALSE, start_time |-> 0, end_time |-> 0]

\* ManagedTask.set_future: the task's handle becomes f (whose done-callback is
\* the task's _on_task_complete).
set_future(tk, f) == [tk EXCEPT !.future = f]

\* a done-callback that records no outcome
OnTaskCompleteSilent(tk, outcome) == tk

\* ManagedTask._on_task_complete for a future that was cancelled, raised or returned.
OnTaskComplete(tk, outcome) ==
    CASE outcome = "cancelled" ->
             [tk EXCEPT !.end_time = Written(@), !.status = "cancelled"]
      [] outcome = "raised" ->
             [tk EXCEPT !.end_time = Written(@), !.status = "failed", !.exception = TRUE]
      [] OTHER ->
             [tk EXCEPT !.end_time = Written(@), !.status = "completed", !.result = TRUE]

\* ManagedTask.cancel after Future.cancel() succeeded: status and end_time
CancelWrites(tk) == [tk EXCEPT !.status = "cancelled", !.end_time = Written(@)]

\* ManagedTask.mark_running's writes, after its test of the status gave saw.
mark_running(tk, saw) ==
    IF saw THEN [tk EXCEPT !.status = "running", !.start_time = Written(@)] ELSE tk

\* ---- ThreadPoolExecutor / Future ----
NewExecutor(mw) == [max_workers |-> mw, shutdown |-> FALSE, queue |-> <<>>]

NewFuture(t, e) ==
    [task |-> t, exec |-> e, state |-> "PENDING", wpc |-> "queued", sawPending |-> FALSE,
     raised |-> FALSE]

\* Future.set_result / set_exception by the worker that ran the work item
Finished(fu, ok) == [fu EXCEPT !.state = "FINISHED", !.wpc = "callback", !.raised = ~ok]

\* number of work items of executor e a worker thread is busy with
Busy(e) ==
    Cardinality({f \in FutIds : fut[f].exec = e /\ fut[f].wpc \in {"marking", "body", "callback"}})

\* executor e has no queued and no executing work (shutdown(wait=True) returns)
Drained(e) == exec[e].queue = <<>> /\ Busy(e) = 0

\* Future.cancel(): can the future still be cancelled?
FutureCancels(fu) == fu.state \in {"PENDING", "CANCELLED"}

\* how many times the work body of task t has been invoked
Runs(t) == Cardinality({f \in FutIds : fut[f].task = t /\ fut[f].wpc \in {"body", "callback", "ran"}})

\* ---- ManagedThreadPool ----
NewPool(id, nm, mw, e) ==
    [pool_id |-> id, name |-> nm, max_workers |-> IF mw = 0 THEN DefaultWorkers ELSE mw,
     executor |-> e, status |-> "running", tasks |-> {}, lock |-> "free"]

WithStatus(S, st) == {t \in S : task[t].status = st}

\* The frame of the resize call in progress: its arguments, its locals, and the
\* tasks that were pending and running when it was invoked.
RzIdle == [pc |-> "idle", pool |-> 0, n |-> 0, via |-> "none", all |-> {},
           pending |-> {}, running |-> {}, completed |-> {},
           inv_status |-> "none", inv_pending |-> {}, inv_running |-> {},
           newexec |-> 0, newtasks |-> {}, requeued |-> {}]

CnIdle == [pc |-> "idle", task |-> 0]

SdIdle == [pc |-> "idle", pool |-> 0, via |-> "none"]

\* The locks as threads see them: lock 0 is ThreadPoolManager._lock, lock p is
\* the _lock of pool p; both are RLocks, so a lock has an owner (0: nobody).
\* No thread is inside a call: every lock is free.
MaxThreads == 3
LockPools == {1, 2}
Threads == 1..MaxThreads
Locks == {0} \cup LockPools
ThIdle == [frame |-> [t \in Threads |-> [op |-> "idle", todo |-> <<>>, depth |-> 0]],
           owner |-> [l \in Locks |-> 0]]

\* The frame of the get_info call in progress: the pool, the locals
\* active_tasks (its length) and all_tasks, and the entries of the dict
\* evaluated so far.
GiIdle == [pc |-> "idle", pool |-> 0, active |-> 0, all |-> {}, status |-> "none",
           pending |-> 0, running |-> 0]

\* The cleanup thread the constructor starts (_start_cleanup_thread): the stop
\* event is clear, cleanup_worker is in _stop_cleanup.wait, no sweep has raised
\* so far, and no ThreadPoolManager.shutdown call is between its join and its
\* closing of the pools.
CwStarted == [pc |-> "wait", stop |-> FALSE, raised |-> FALSE, join |-> FALSE]

\* What a call returned: the operation, its outcome ('success' for a resize),
\* the pool or task it was about, its argument and, for a resize or a submit,
\* the status the pool had when the call was invoked; for a submit the value
\* returned by the registry and the value returned by the pool; for a resize
\* that migrated also its counts, its snapshot of the task set and its size,
\* the tasks it re-enqueued and the tasks that were pending and running when it
\* was invoked; for a get_info the status and the counts of the dict.
Ret(op, kind, ok, id, n) ==
    [op |-> op, kind |-> kind, success |-> ok, id |-> id, n |-> n,
     inv_status |-> IF op \in {"resize", "submit", "shutdown_now", "force_close"}
                    THEN pool[id].status ELSE "none",
     value |-> <<>>, pool_value |-> <<>>, ids |-> {}, tasks |-> {},
     migrated_tasks |-> 0, running_tasks |-> 0, completed_tasks |-> 0, total |-> 0,
     status |-> "none", pending_tasks |-> 0, active_tasks |-> 0,
     all |-> {}, requeued |-> {}, inv_pending |-> {}, inv_running |-> {}]

NoRet == Ret("none", "none", FALSE, 0, 0)

Quiet == ret = NoRet

Vias == {"mgr", "pool"}

Init ==
    /\ mpools = {}
    /\ mtasks = {}
    /\ mlock = "free"
    /\ pool = <<>>
    /\ task = <<>>
    /\ fut = <<>>
    /\ exec = <<>>
    /\ rz = RzIdle
    /\ cn = CnIdle
    /\ sd = SdIdle
    /\ ret = NoRet
    /\ cw = CwStarted
    /\ gi = GiIdle
    /\ th = ThIdle

\* ---- ThreadPoolManager.create_pool ----
\* a name test that never finds a collision
NameTakenNever(nm) == FALSE

\* create_pool's loop over self.pools.values(): some held pool has the name
NameTaken(nm) == \E p \in mpools : pool[p].name = nm

\* create_pool while fewer than maxp pools and maxe executors have been constructed
CreatePoolWithin(k, mw, maxp, maxe) ==
    /\ mlock = "free"
    /\ Len(pool) < maxp
    /\ Len(exec) < maxe
    /\ LET id == Len(pool) + 1
           nm == NameOf(k, id)
       IN /\ ~NameTaken(nm)
          /\ pool' = Append(pool, NewPool(id, nm, mw, Len(exec) + 1))
          /\ exec' = Append(exec, NewExecutor(IF mw = 0 THEN DefaultWorkers ELSE mw))
          /\ mpools' = mpools \cup {id}
    /\ UNCHANGED <<mtasks, mlock, task, fut, rz, cn, sd, ret, cw, gi, th>>

CreatePool(k, mw) == CreatePoolWithin(k, mw, MaxPools, MaxExecs)

\* create_pool with a name some held pool has: raise PoolAlreadyExistsError
CreatePoolRejected(k) ==
    /\ mlock = "free"
    /\ NameTaken(NameOf(k, Len(pool) + 1))
    /\ ret' = Ret("create", "PoolAlreadyExists", FALSE, 0, k)
    /\ UNCHANGED <<mpools, mtasks, mlock, pool, task, fut, exec, rz, cn, sd, cw, gi, th>>

\* ---- ThreadPoolManager.submit_task -> ManagedThreadPool.submit ----
\* a submit that does not take the pool lock
SubmitEnabledNoPoolLock(p) ==
    /\ p \in mpools
    /\ mlock = "free"

\* get_pool finds the pool; the registry lock and the pool lock can be taken
SubmitEnabled(p) ==
    /\ p \in mpools
    /\ mlock = "free"
    /\ pool[p].lock = "free"

\* a status test that refuses only a terminated pool
PoolAcceptsUnlessTerminated(pl) == pl.status # "terminated"

\* ManagedThreadPool.submit's test of the pool status
PoolAccepts(pl) == pl.status = "running"

\* what ManagedThreadPool.submit returns: task_id, future
SubmitReturn(t, f) == <<t, f>>

\* ManagedThreadPool.get_task(key): self.tasks.get(key), as the set of tasks found
PoolGetTask(pl, key) == {t \in pl.tasks : <<t>> = key}

\* The task is created and stored, then handed to the pool's executor (whose
\* submit raises RuntimeError once it is shut down); submit_task unpacks what
\* the pool returned, enters the task in the global index and returns its id.
SubmitTask(p, k) ==
    /\ SubmitEnabled(p)
    /\ PoolAccepts(pool[p])
    /\ Len(task) < MaxTasks
    /\ Len(fut) < MaxFuts
    /\ LET id == Len(task) + 1
           f == Len(fut) + 1
           e == pool[p].executor
       IN /\ pool' = [pool EXCEPT ![p].tasks = @ \cup {id}]
          /\ IF exec[e].shutdown
             THEN /\ task' = Append(task, NewTask(id, NameOf(k, id), p))
                  /\ ret' = Ret("submit", "RuntimeError", FALSE, p, 0)
                  /\ UNCHANGED <<fut, exec, mtasks>>
             ELSE /\ task' = Append(task, set_future(NewTask(id, NameOf(k, id), p), f))
                  /\ fut' = Append(fut, NewFuture(id, e))
                  /\ exec' = [exec EXCEPT ![e].queue = Append(@, f)]
                  /\ mtasks' = mtasks \cup {id}
                  /\ ret' = [Ret("submit", "submitted", TRUE, p, 0) EXCEPT
                                !.value = <<SubmitReturn(id, f)[1]>>,
                                !.pool_value = SubmitReturn(id, f)]
    /\ UNCHANGED <<mpools, mlock, rz, cn, sd, cw, gi, th>>

\* submit on a pool that is not RUNNING raises InvalidPoolStateError, through
\* submit_task or on the pool object itself
SubmitRejected(p, via) ==
    /\ via \in Vias
    /\ IF via = "mgr" THEN SubmitEnabled(p) ELSE pool[p].lock = "free"
    /\ ~PoolAccepts(pool[p])
    /\ ret' = Ret("submit", "InvalidPoolState", FALSE, p, 0)
    /\ UNCHANGED <<mpools, mtasks, mlock, pool, task, fut, exec, rz, cn, sd, cw, gi, th>>

\* ---- worker threads of an executor ----
\* _worker: take the next work item; set_running_or_notify_cancel drops a
\* cancelled one, otherwise the future is RUNNING and ManagedTask.start begins
\* with mark_running's test of the status.
WorkerTake(e) ==
    /\ exec[e].queue # <<>>
    /\ Busy(e) < exec[e].max_workers
    /\ LET f == Head(exec[e].queue) IN
         /\ exec' = [exec EXCEPT ![e].queue = Tail(@)]
         /\ fut' = IF fut[f].state = "CANCELLED"
                   THEN [fut EXCEPT ![f].wpc = "dropped"]
                   ELSE [fut EXCEPT ![f].state = "RUNNING", ![f].wpc = "marking",
                                    ![f].sawPending = (task[fut[f].task].status = "pending")]
    /\ UNCHANGED <<mpools, mtasks, mlock, pool, task, rz, cn, sd, ret, cw, gi, th>>

\* mark_running's writes, then ManagedTask.start invokes the work body.
WorkerStart(f) ==
    /\ fut[f].state = "RUNNING"
    /\ fut[f].wpc = "marking"
    /\ task' = [task EXCEPT ![fut[f].task] = mark_running(@, fut[f].sawPending)]
    /\ fut' = [fut EXCEPT ![f].wpc = "body", ![f].sawPending = FALSE]
    /\ UNCHANGED <<mpools, mtasks, mlock, pool, exec, rz, cn, sd, ret, cw, gi, th>>

\* The work body returns or raises: the future is FINISHED and the threads
\* waiting in Future.result() are woken; the done-callbacks have not run yet.
WorkerComplete(f, ok) ==
    /\ fut[f].state = "RUNNING"
    /\ fut[f].wpc = "body"
    /\ fut' = [fut EXCEPT ![f] = Finished(@, ok)]
    /\ UNCHANGED <<mpools, mtasks, mlock, pool, task, exec, rz, cn, sd, ret, cw, gi, th>>

\* Future._invoke_callbacks in the worker thread: ManagedTask._on_task_complete
WorkerCallback(f) ==
    /\ fut[f].wpc = "callback"
    /\ fut' = [fut EXCEPT ![f].wpc = "ran"]
    /\ task' = [task EXCEPT ![fut[f].task] =
                   OnTaskComplete(@, IF fut[f].raised THEN "raised" ELSE "returned")]
    /\ UNCHANGED <<mpools, mtasks, mlock, pool, exec, rz, cn, sd, ret, cw, gi, th>>

\* ---- ManagedTask.get_result ----
\* Future.result() stops waiting: the future is FINISHED
ResultReady(fu) == fu.state = "FINISHED"

\* get_result on a task whose future has finished returns the body's value or
\* re-raises the body's exception
GetResult(t) ==
    /\ task[t].future # NoFuture
    /\ ResultReady(fut[task[t].future])
    /\ ret' = Ret("get_result", IF fut[task[t].future].raised THEN "raised" ELSE "value",
                  ~fut[task[t].future].raised, t, 0)
    /\ UNCHANGED <<mpools, mtasks, mlock, pool, task, fut, exec, rz, cn, sd, cw, gi, th>>

\* ---- ManagedThreadPool.resize, directly or through ThreadPoolManager.resize_pool ----
ResizeEnabled(p, via) ==
    /\ rz.pc = "idle"
    /\ via \in Vias
    /\ via = "mgr" => (p \in mpools /\ mlock = "free")
    /\ pool[p].lock = "free"

\* status is not RUNNING: {'success': False, ...}
ResizeRejectState(p, n, via) ==
    /\ ResizeEnabled(p, via)
    /\ pool[p].status # "running"
    /\ ret' = Ret("resize", "InvalidPoolState", FALSE, p, n)
    /\ UNCHANGED <<mpools, mtasks, mlock, pool, task, fut, exec, rz, cn, sd, cw, gi, th>>

\* a size test that lets 0 through
BadSizeNegativeOnly(n) == n < 0

\* is new_max_workers refused?
BadSize(n) == n < 1

\* new_max_workers < 1: {'success': False, ...}
ResizeRejectParam(p, n, via) ==
    /\ ResizeEnabled(p, via)
    /\ pool[p].status = "running"
    /\ BadSize(n)
    /\ ret' = Ret("resize", "InvalidParameter", FALSE, p, n)
    /\ UNCHANGED <<mpools, mtasks, mlock, pool, task, fut, exec, rz, cn, sd, cw, gi, th>>

\* a resize without the same-size return
SameSizeNever(pl, n) == FALSE

\* does resize(n) return at the "no change needed" test?
SameSize(pl, n) == n = pl.max_workers

\* new_max_workers == max_workers: {'success': True, ...}
ResizeSameSize(p, n, via) ==
    /\ ResizeEnabled(p, via)
    /\ pool[p].status = "running"
    /\ ~BadSize(n)
    /\ SameSize(pool[p], n)
    /\ ret' = Ret("resize", "same_size", TRUE, p, n)
    /\ UNCHANGED <<mpools, mtasks, mlock, pool, task, fut, exec, rz, cn, sd, cw, gi, th>>

\* the locks are taken and all_tasks = list(self.tasks.values())
ResizeBegin(p, n, via) ==
    /\ ResizeEnabled(p, via)
    /\ pool[p].status = "running"
    /\ ~BadSize(n)
    /\ ~SameSize(pool[p], n)
    /\ Len(exec) < MaxExecs
    /\ Len(fut) + Cardinality(WithStatus(pool[p].tasks, "pending")) <= MaxFuts
    /\ pool' = [pool EXCEPT ![p].lock = "resize"]
    /\ mlock' = IF via = "mgr" THEN "resize" ELSE mlock
    /\ rz' = [RzIdle EXCEPT !.pc = "pending", !.pool = p, !.n = n, !.via = via,
                            !.all = pool[p].tasks,
                            !.inv_status = pool[p].status,
                            !.inv_pending = WithStatus(pool[p].tasks, "pending"),
                            !.inv_running = WithStatus(pool[p].tasks, "running")]
    /\ UNCHANGED <<mpools, mtasks, task, fut, exec, cn, sd, ret, cw, gi, th>>

\* pending_tasks = [task for task in all_tasks if task.status == PENDING]
ResizePending ==
    /\ rz.pc = "pending"
    /\ rz' = [rz EXCEPT !.pc = "running", !.pending = WithStatus(rz.all, "pending")]
    /\ UNCHANGED <<mpools, mtasks, mlock, pool, task, fut, exec, cn, sd, ret, cw, gi, th>>

\* running_tasks = [task for task in all_tasks if task.status == RUNNING]
ResizeRunning ==
    /\ rz.pc = "running"
    /\ rz' = [rz EXCEPT !.pc = "completed", !.running = WithStatus(rz.all, "running")]
    /\ UNCHANGED <<mpools, mtasks, mlock, pool, task, fut, exec, cn, sd, ret, cw, gi, th>>

\* completed_tasks = [task for task in all_tasks if task.is_done()]
ResizeCompleted ==
    /\ rz.pc = "completed"
    /\ rz' = [rz EXCEPT !.pc = "migrate", !.completed = {t \in rz.all : is_done(task[t])}]
    /\ UNCHANGED <<mpools, mtasks, mlock, pool, task, fut, exec, cn, sd, ret, cw, gi, th>>

RECURSIVE SetToSeq(_)
SetToSeq(S) ==
    IF S = {} THEN <<>>
    ELSE LET m == CHOOSE x \in S : \A y \in S : x <= y
         IN <<m>> \o SetToSeq(S \ {m})

IndexOf(sq, x) == CHOOSE i \in 1..Len(sq) : sq[i] = x

\* a re-enqueue that builds a fresh ManagedTask (a new submit_time)
RequeueTaskRestamped(tk, f) == [set_future(tk, f) EXCEPT !.submit_time = Now]

\* the task object after new_pool.executor.submit(task.start); task.set_future(new_future)
RequeueTask(tk, f) == set_future(tk, f)

\* the task object after new_pool.executor.submit raised
RequeueFailed(tk) == [tk EXCEPT !.status = "failed"]

\* new_pool.tasks after both migration loops
MigratedTaskSet(requeued, running) == requeued \cup running

\* The new pool is constructed, every task of pending_tasks is submitted to its
\* executor (the submissions of the tasks in F raise), the running tasks are
\* entered in its task map, the old executor is shut down without waiting and
\* the status becomes TERMINATED.
ResizeMigrate(F) ==
    /\ rz.pc = "migrate"
    /\ F \subseteq rz.pending
    /\ LET p == rz.pool
           old == pool[p].executor
           new == Len(exec) + 1
           moved == SetToSeq(rz.pending \ F)
           newfut(t) == Len(fut) + IndexOf(moved, t)
       IN /\ exec' = Append([exec EXCEPT ![old].shutdown = TRUE],
                            [NewExecutor(rz.n) EXCEPT
                                !.queue = [i \in 1..Len(moved) |-> Len(fut) + i]])
          /\ fut' = fut \o [i \in 1..Len(moved) |-> NewFuture(moved[i], new)]
          /\ task' = [t \in TaskIds |->
                        IF t \in F THEN RequeueFailed(task[t])
                        ELSE IF t \in rz.pending THEN RequeueTask(task[t], newfut(t))
                        ELSE task[t]]
          /\ pool' = [pool EXCEPT ![p].status = "terminated"]
          /\ rz' = [rz EXCEPT !.pc = "swap", !.newexec = new,
                              !.newtasks = MigratedTaskSet(rz.pending \ F, rz.running),
                              !.requeued = rz.pending \ F]
    /\ UNCHANGED <<mpools, mtasks, mlock, cn, sd, ret, cw, gi, th>>

\* where a call inside resize's try block can raise: the construction of the
\* new pool, or self.executor.shutdown(wait=False) after the migration loops
FailPoints == {"construct", "shutdown"}

\* An exception escapes to resize's outer handler, which returns
\* {'success': False, ...} and restores nothing: raised by the construction of
\* the new pool nothing has been written; raised by the shutdown of the old
\* executor the pending tasks have already been submitted to the new pool's
\* executor and carry its futures.
ResizeFailed(at) ==
    /\ rz.pc = "migrate"
    /\ at \in FailPoints
    /\ LET p == rz.pool
           new == Len(exec) + 1
           moved == SetToSeq(rz.pending)
           newfut(t) == Len(fut) + IndexOf(moved, t)
       IN /\ IF at = "construct"
             THEN UNCHANGED <<exec, fut, task>>
             ELSE /\ exec' = Append(exec, [NewExecutor(rz.n) EXCEPT
                                             !.queue = [i \in 1..Len(moved) |-> Len(fut) + i]])
                  /\ fut' = fut \o [i \in 1..Len(moved) |-> NewFuture(moved[i], new)]
                  /\ task' = [t \in TaskIds |->
                                IF t \in rz.pending THEN RequeueTask(task[t], newfut(t))
                                ELSE task[t]]
          /\ pool' = [pool EXCEPT ![p].lock = "free"]
          /\ mlock' = IF rz.via = "mgr" THEN "free" ELSE mlock
          /\ ret' = [Ret("resize", "InternalError", FALSE, p, rz.n) EXCEPT
                        !.all = rz.all,
                        !.inv_status = rz.inv_status,
                        !.inv_pending = rz.inv_pending,
                        !.inv_running = rz.inv_running]
    /\ rz' = RzIdle
    /\ UNCHANGED <<mpools, mtasks, cn, sd, cw, gi, th>>

\* The pool takes over the new executor, capacity and task map, is RUNNING
\* again, and the result is returned.
ResizeSwap ==
    /\ rz.pc = "swap"
    /\ LET p == rz.pool IN
         /\ pool' = [pool EXCEPT ![p].executor = rz.newexec, ![p].max_workers = rz.n,
                                 ![p].tasks = rz.newtasks, ![p].status = "running",
                                 ![p].lock = "free"]
         /\ mlock' = IF rz.via = "mgr" THEN "free" ELSE mlock
         /\ rz' = RzIdle
         /\ ret' = [Ret("resize", "resized", TRUE, p, rz.n) EXCEPT
                        !.migrated_tasks = Cardinality(rz.requeued),
                        !.running_tasks = Cardinality(rz.running),
                        !.completed_tasks = Cardinality(rz.completed),
                        !.total = Cardinality(rz.all),
                        !.all = rz.all,
                        !.requeued = rz.requeued,
                        !.inv_status = rz.inv_status,
                        !.inv_pending = rz.inv_pending,
                        !.inv_running = rz.inv_running]
    /\ UNCHANGED <<mpools, mtasks, task, fut, exec, cn, sd, cw, gi, th>>

\* ---- ThreadPoolManager.cancel_task -> ManagedThreadPool.cancel_task -> ManagedTask.cancel ----
\* What cancel_task(t) does up to and including Future.cancel()
CancelOutcome(t) ==
    IF t \notin mtasks THEN "false"
    ELSE IF task[t].pool_id \notin mpools THEN "PoolNotFound"
    ELSE IF t \notin pool[task[t].pool_id].tasks THEN "false"
    ELSE IF task[t].status \notin {"pending", "running"} THEN "false"
    ELSE IF ~FutureCancels(fut[task[t].future]) THEN "false"
    ELSE "cancelled"

CancelCall(t) ==
    /\ cn.pc = "idle"
    /\ LET f == task[t].future IN
         IF CancelOutcome(t) = "cancelled"
         THEN /\ cn' = [pc |-> "set_status", task |-> t]
              /\ fut' = [fut EXCEPT ![f].state = "CANCELLED"]
              /\ task' = IF fut[f].state = "PENDING"
                         THEN [task EXCEPT ![t] = OnTaskComplete(@, "cancelled")]
                         ELSE task
              /\ ret' = ret
         ELSE /\ ret' = IF CancelOutcome(t) = "false" THEN ret
                            ELSE Ret("cancel", CancelOutcome(t), FALSE, t, 0)
              /\ UNCHANGED <<cn, task, fut>>
    /\ UNCHANGED <<mpools, mtasks, mlock, pool, exec, rz, sd, cw, gi, th>>

\* ManagedTask.cancel: self.status = CANCELLED; self.end_time = now(); then
\* cancel_task drops the task from the global index if it is done.
CancelFinish ==
    /\ cn.pc = "set_status"
    /\ LET t == cn.task IN
         /\ task' = [task EXCEPT ![t] = CancelWrites(@)]
         /\ mtasks' = mtasks \ {t}
         /\ ret' = IF t \in mtasks THEN Ret("cancel", "true", TRUE, t, 0)
                    ELSE Ret("cancel", "KeyError", FALSE, t, 0)
    /\ cn' = CnIdle
    /\ UNCHANGED <<mpools, mlock, pool, fut, exec, rz, sd, cw, gi, th>>

\* ---- shutdown, shutdown_now, close_pool, force_close_pool ----
\* close_pool's pruning of the global index
PruneDone(p) == mtasks \ {t \in mtasks : task[t].pool_id = p /\ is_done(task[t])}

ShutdownEnabled(p, via) ==
    /\ via \in Vias
    /\ via = "mgr" => (p \in mpools /\ mlock = "free")
    /\ via = "pool" => pool[p].status = "running"
    /\ pool[p].lock = "free"

\* ManagedThreadPool.shutdown(wait=False), directly or through close_pool, up
\* to executor.shutdown(wait=False); on a pool that is not RUNNING shutdown does
\* nothing and close_pool goes on to remove the pool
ShutdownNoWait(p, via) ==
    /\ sd.pc = "idle"
    /\ ShutdownEnabled(p, via)
    /\ IF pool[p].status = "running"
       THEN /\ pool' = [pool EXCEPT ![p].status = "shutdown", ![p].lock = "shutdown"]
            /\ exec' = [exec EXCEPT ![pool[p].executor].shutdown = TRUE]
            /\ sd' = [pc |-> "stop", pool |-> p, via |-> via]
            /\ mlock' = IF via = "mgr" THEN "shutdown" ELSE mlock
            /\ UNCHANGED <<mtasks, mpools>>
       ELSE /\ mtasks' = PruneDone(p)
            /\ mpools' = mpools \ {p}
            /\ UNCHANGED <<pool, exec, sd, mlock>>
    /\ UNCHANGED <<task, fut, rz, cn, ret, cw, gi, th>>

\* executor.shutdown(wait=False) has returned: status = STOPPED; close_pool
\* prunes the index and removes the pool
ShutdownStopped ==
    /\ sd.pc = "stop"
    /\ LET p == sd.pool IN
         /\ pool' = [pool EXCEPT ![p].status = "stopped", ![p].lock = "free"]
         /\ IF sd.via = "mgr"
            THEN /\ mtasks' = PruneDone(p)
                 /\ mpools' = mpools \ {p}
                 /\ mlock' = "free"
            ELSE UNCHANGED <<mtasks, mpools, mlock>>
    /\ sd' = SdIdle
    /\ UNCHANGED <<task, fut, exec, rz, cn, ret, cw, gi, th>>

\* ManagedThreadPool.shutdown(wait=True) up to executor.shutdown(wait=True)
ShutdownWait(p, via) ==
    /\ sd.pc = "idle"
    /\ ShutdownEnabled(p, via)
    /\ IF pool[p].status = "running"
       THEN /\ pool' = [pool EXCEPT ![p].status = "shutdown", ![p].lock = "shutdown"]
            /\ exec' = [exec EXCEPT ![pool[p].executor].shutdown = TRUE]
            /\ sd' = [pc |-> "drain", pool |-> p, via |-> via]
            /\ mlock' = IF via = "mgr" THEN "shutdown" ELSE mlock
            /\ UNCHANGED <<mtasks, mpools>>
       ELSE /\ mtasks' = PruneDone(p)
            /\ mpools' = mpools \ {p}
            /\ UNCHANGED <<pool, exec, sd, mlock>>
    /\ UNCHANGED <<task, fut, rz, cn, ret, cw, gi, th>>

\* executor.shutdown(wait=True) returns once the workers have drained the queue
ShutdownDrained ==
    /\ sd.pc = "drain"
    /\ LET p == sd.pool IN
         /\ Drained(pool[p].executor)
         /\ pool' = [pool EXCEPT ![p].status = "terminated", ![p].lock = "free"]
         /\ IF sd.via = "mgr"
            THEN /\ mtasks' = PruneDone(p)
                 /\ mpools' = mpools \ {p}
                 /\ mlock' = "free"
            ELSE UNCHANGED <<mtasks, mpools, mlock>>
    /\ sd' = SdIdle
    /\ UNCHANGED <<task, fut, exec, rz, cn, ret, cw, gi, th>>

\* variant of CancelledTasks that collects the PENDING tasks only
CancelledTasksPendingOnly(pl) ==
    {task[t] : t \in {u \in pl.tasks : task[u].status = "pending"}}

\* the list shutdown_now returns: the ManagedTask objects of the pool's task
\* set whose status is PENDING or RUNNING
CancelledTasks(pl) ==
    {task[t] : t \in {u \in pl.tasks : task[u].status \in {"pending", "running"}}}

\* the list force_close_pool returns: the ids in the manager's task index whose
\* task belongs to pool p and is not done
ActiveTasks(p) == {t \in mtasks : task[t].pool_id = p /\ ~is_done(task[t])}

\* ManagedThreadPool.shutdown_now, directly or through force_close_pool
ShutdownNow(p, via) ==
    /\ via \in Vias
    /\ via = "mgr" => (p \in mpools /\ mlock = "free")
    /\ pool[p].lock = "free"
    /\ IF pool[p].status = "running"
       THEN /\ pool' = [pool EXCEPT ![p].status = "stopped"]
            /\ exec' = [exec EXCEPT ![pool[p].executor].shutdown = TRUE]
       ELSE UNCHANGED <<pool, exec>>
    /\ IF via = "mgr"
       THEN /\ mtasks' = mtasks \ ActiveTasks(p)
            /\ mpools' = mpools \ {p}
            /\ ret' = [Ret("force_close", "returned", TRUE, p, 0) EXCEPT
                         !.ids = ActiveTasks(p)]
       ELSE /\ UNCHANGED <<mtasks, mpools>>
            /\ ret' = [Ret("shutdown_now", "returned", TRUE, p, 0) EXCEPT
                         !.tasks = IF pool[p].status = "running"
                                   THEN CancelledTasks(pool[p]) ELSE {}]
    /\ UNCHANGED <<mlock, task, fut, rz, cn, sd, cw, gi, th>>

\* ---- lookups ----
\* ThreadPoolManager.get_task(t) finds the task (does not raise TaskNotFoundError)
MgrGetTask(t) == t \in mtasks

\* ManagedThreadPool.list_tasks
ListTasks(p) == pool[p].tasks

\* ThreadPoolManager.list_tasks() over all pools held by the registry
ListAllTasks == UNION {ListTasks(p) : p \in mpools}

\* ---- cleanup ----
\* ManagedThreadPool.cleanup_completed_tasks
PoolCleaned(pl) == [pl EXCEPT !.tasks = {t \in @ : ~is_done(task[t])}]

\* total_cleaned: the ids dropped from the index plus what every held pool dropped
TotalCleaned ==
    Cardinality({t \in mtasks : is_done(task[t])})
      + Cardinality({t \in UNION {pool[p].tasks : p \in mpools} : is_done(task[t])})

\* ThreadPoolManager.cleanup_completed_tasks
CleanupCompletedTasks ==
    /\ mlock = "free"
    /\ \A p \in mpools : pool[p].lock = "free"
    /\ \E t \in mtasks \cup UNION {pool[p].tasks : p \in mpools} : is_done(task[t])
    /\ mtasks' = {t \in mtasks : ~is_done(task[t])}
    /\ pool' = [p \in PoolIds |-> IF p \in mpools THEN PoolCleaned(pool[p]) ELSE pool[p]]
    /\ ret' = Ret("cleanup", "returned", TRUE, 0, TotalCleaned)
    /\ UNCHANGED <<mpools, mlock, task, fut, exec, rz, cn, sd, cw, gi, th>>

\* the pools clear_stopped_pools deletes
StoppedPools == {p \in mpools : pool[p].status \in {"stopped", "terminated"}}

\* ThreadPoolManager.clear_stopped_pools
ClearStoppedPools ==
    /\ mlock = "free"
    /\ StoppedPools # {}
    /\ mpools' = mpools \ StoppedPools
    /\ ret' = Ret("clear_stopped_pools", "returned", TRUE, 0, 0)
    /\ UNCHANGED <<mtasks, mlock, pool, task, fut, exec, rz, cn, sd, cw, gi, th>>

\* the caller has taken the returned value
Ack ==
    /\ ~Quiet
    /\ ret' = NoRet
    /\ UNCHANGED <<mpools, mtasks, mlock, pool, task, fut, exec, rz, cn, sd, cw, gi, th>>

Next ==
    \/ Quiet /\ \E k \in PoolNameInputs, mw \in 1..MaxCap : CreatePool(k, mw)
    \/ Quiet /\ \E p \in PoolIds, k \in TaskNameInputs : SubmitTask(p, k)
    \/ Quiet /\ \E p \in PoolIds, via \in Vias : SubmitRejected(p, via)
    \/ Quiet /\ \E e \in ExecIds : WorkerTake(e)
    \/ Quiet /\ \E f \in FutIds : WorkerStart(f)
    \/ Quiet /\ \E f \in FutIds, ok \in BOOLEAN : WorkerComplete(f, ok)
    \/ Quiet /\ \E f \in FutIds : WorkerCallback(f)
    \/ Quiet /\ \E t \in TaskIds : GetResult(t)
    \/ Quiet /\ \E p \in PoolIds, n \in 0..MaxCap, via \in Vias : ResizeRejectState(p, n, via)
    \/ Quiet /\ \E p \in PoolIds, n \in 0..MaxCap, via \in Vias : ResizeRejectParam(p, n, via)
    \/ Quiet /\ \E p \in PoolIds, n \in 0..MaxCap, via \in Vias : ResizeSameSize(p, n, via)
    \/ Quiet /\ \E p \in PoolIds, n \in 0..MaxCap, via \in Vias : ResizeBegin(p, n, via)
    \/ Quiet /\ ResizePending
    \/ Quiet /\ ResizeRunning
    \/ Quiet /\ ResizeCompleted
    \/ Quiet /\ \E F \in SUBSET rz.pending : ResizeMigrate(F)
    \/ Quiet /\ ResizeSwap
    \/ Quiet /\ \E t \in TaskIds : CancelCall(t)
    \/ Quiet /\ CancelFinish
    \/ Quiet /\ \E p \in PoolIds, via \in Vias : ShutdownNoWait(p, via)
    \/ Quiet /\ \E p \in PoolIds, via \in Vias : ShutdownWait(p, via)
    \/ Quiet /\ ShutdownStopped
    \/ Quiet /\ ShutdownDrained
    \/ Quiet /\ \E p \in PoolIds, via \in Vias : ShutdownNow(p, via)
    \/ Quiet /\ CleanupCompletedTasks
    \/ Quiet /\ ClearStoppedPools
    \/ Ack

Spec == Init /\ [][Next]_vars

\* ---- submitting, running and resizing when a call inside resize's try
\* block may raise ----
FailNext ==
    \/ Quiet /\ \E k \in PoolNameInputs, mw \in 1..MaxCap : CreatePool(k, mw)
    \/ Quiet /\ \E p \in PoolIds, k \in TaskNameInputs : SubmitTask(p, k)
    \/ Quiet /\ \E e \in ExecIds : WorkerTake(e)
    \/ Quiet /\ \E f \in FutIds : WorkerStart(f)
    \/ Quiet /\ \E f \in FutIds, ok \in BOOLEAN : WorkerComplete(f, ok)
    \/ Quiet /\ \E f \in FutIds : WorkerCallback(f)
    \/ Quiet /\ \E p \in PoolIds, n \in 0..MaxCap, via \in Vias : ResizeBegin(p, n, via)
    \/ Quiet /\ ResizePending
    \/ Quiet /\ ResizeRunning
    \/ Quiet /\ ResizeCompleted
    \/ Quiet /\ \E F \in SUBSET rz.pending : ResizeMigrate(F)
    \/ Quiet /\ \E at \in FailPoints : ResizeFailed(at)
    \/ Quiet /\ ResizeSwap
    \/ Quiet /\ \E t \in TaskIds : CancelCall(t)
    \/ Quiet /\ CancelFinish
    \/ Ack

FailSpec == Init /\ [][FailNext]_vars

\* ---- the registry alone: several pools, their names, closing and sweeping ----
RegMaxPools == 3
RegNameInputs == {0, 1, 2}

RegNext ==
    \/ Quiet /\ \E k \in RegNameInputs, mw \in 1..MaxCap :
                   CreatePoolWithin(k, mw, RegMaxPools, RegMaxPools)
    \/ Quiet /\ \E k \in RegNameInputs : CreatePoolRejected(k)
    \/ Quiet /\ \E p \in PoolIds : ShutdownNoWait(p, "mgr")
    \/ Quiet /\ ShutdownStopped
    \/ Quiet /\ \E p \in PoolIds, via \in Vias : ShutdownNow(p, via)
    \/ Quiet /\ ClearStoppedPools
    \/ Ack

RegSpec == Init /\ [][RegNext]_vars

\* ---- app.py: GET /api/tasks, the paginated task list ----
DefaultPage == 1
DefaultPerPage == 10
MaxPerPage == 100

\* Python's max and min of two integers
Max2(a, b) == IF a >= b THEN a ELSE b
Min2(a, b) == IF a <= b THEN a ELSE b

\* a query parameter: an integer literal, absent, or a string that int() refuses
IntArg(n) == [kind |-> "int", v |-> n]
NoArg == [kind |-> "none", v |-> 0]
BadArg == [kind |-> "bad", v |-> 0]

\* int(request.args.get(name, default)) for a parameter int() accepts
ArgValue(a, default) == IF a.kind = "int" THEN a.v ELSE default

\* a per_page clamp without the upper limit
ClampPerPageNoCap(raw) == Max2(1, raw)

\* max(1, min(100, per_page))
ClampPerPage(raw) == Max2(1, Min2(MaxPerPage, raw))

\* max(1, page)
ClampPage(raw) == Max2(1, raw)

\* the try block: both parameters, or the defaults when int() raises on either
ParsePaging(pg, pp) ==
    IF pg.kind = "bad" \/ pp.kind = "bad"
    THEN [page |-> DefaultPage, per_page |-> DefaultPerPage]
    ELSE [page |-> ClampPage(ArgValue(pg, DefaultPage)),
          per_page |-> ClampPerPage(ArgValue(pp, DefaultPerPage))]

\* a page count that rounds down
TotalPagesFloor(n, pp) == Max2(1, n \div pp)

\* max(1, (total_items + per_page - 1) // per_page)
TotalPages(n, pp) == Max2(1, (n + pp - 1) \div pp)

\* max(1, min(page, total_pages))
CurrentPage(page, tp) == Max2(1, Min2(page, tp))

\* all_tasks[start:end] for 0 <= start <= end
Slice(sq, start, end) == SubSeq(sq, start + 1, Min2(end, Len(sq)))

\* the response of list_tasks to the request req over the list all_tasks
ListTasksResponse(req) ==
    LET pr == ParsePaging(req.page, req.per_page)
        total_items == Len(req.all_tasks)
        total_pages == TotalPages(total_items, pr.per_page)
        current_page == CurrentPage(pr.page, total_pages)
        start_index == (current_page - 1) * pr.per_page
        end_index == start_index + pr.per_page
    IN [op |-> "list_tasks", kind |-> "response", req |-> req,
        data |-> Slice(req.all_tasks, start_index, end_index),
        current_page |-> current_page,
        per_page |-> pr.per_page,
        total_items |-> total_items,
        total_pages |-> total_pages,
        has_next |-> current_page < total_pages,
        has_prev |-> current_page > 1,
        start_item |-> IF total_items > 0 THEN start_index + 1 ELSE 0,
        end_item |-> Min2(current_page * pr.per_page, total_items)]

\* the requests served: page and per_page arguments and the length of the list
PageValues == {-1, 0, 1, 2, 3, 4, 200}
PerPageValues == {-1, 0, 1, 2, 5, 10, 100, 101, 200}
TaskCounts == {0, 1, 2, 5, 9, 10, 11, 12, 100, 101, 250}

PageArgs == {IntArg(n) : n \in PageValues} \cup {NoArg, BadArg}
PerPageArgs == {IntArg(n) : n \in PerPageValues} \cup {NoArg, BadArg}

ListTasksRequest(pg, pp, n) ==
    [op |-> "list_tasks", kind |-> "request", page |-> pg, per_page |-> pp,
     all_tasks |-> [i \in 1..n |-> i]]

PageInit ==
    /\ mpools = {} /\ mtasks = {} /\ mlock = "free"
    /\ pool = <<>> /\ task = <<>> /\ fut = <<>> /\ exec = <<>>
    /\ rz = RzIdle /\ cn = CnIdle /\ sd = SdIdle /\ cw = CwStarted /\ gi = GiIdle /\ th = ThIdle
    /\ ret \in {ListTasksRequest(pg, pp, n) : pg \in PageArgs, pp \in PerPageArgs, n \in TaskCounts}

\* the handler answers the request
ApiListTasks ==
    /\ ret.kind = "request"
    /\ ret' = ListTasksResponse(ret)
    /\ UNCHANGED <<mpools, mtasks, mlock, pool, task, fut, exec, rz, cn, sd, cw, gi, th>>

PageNext == ApiListTasks

PageSpec == PageInit /\ [][PageNext]_vars

\* ======================= task state machine =======================
\* C1: once a task's status is completed, failed or cancelled, no step of any
\* operation (submit, cancel, resize, shutdown, cleanup, worker callbacks)
\* changes it to a different status.
C1_TerminalIsFinal ==
    [][\A t \in TaskIds : is_done(task[t]) => task'[t].status = task[t].status]_vars

\* C2: every change of a task's status is one of the edges pending->running,
\* running->completed, running->failed, running->cancelled, pending->cancelled.
C2_OnlyLegalEdges ==
    [][\A t \in TaskIds :
          task'[t].status # task[t].status =>
            <<task[t].status, task'[t].status>> \in
               {<<"pending", "running">>, <<"running", "completed">>,
                <<"running", "failed">>, <<"running", "cancelled">>,
                <<"pending", "cancelled">>}]_vars

\* C3: in every reachable state, for every pool, the number of the pool's
\* tasks whose status is running is at most the pool's max_workers.
C3_RunningWithinCapacity ==
    \A p \in PoolIds :
        Cardinality({t \in TaskIds : task[t].pool_id = p /\ task[t].status = "running"})
            <= pool[p].max_workers

\* C4: the work body of every task is invoked at most once over its lifetime
\* (no task is executed by both the old and the new executor of a resize).
C4_BodyAtMostOnce == \A t \in TaskIds : Runs(t) <= 1

\* ======================= resize =======================
\* C5: a resize that migrated has re-enqueued exactly the tasks that were
\* pending when it was invoked, and migrated_tasks + running_tasks +
\* completed_tasks equals the number of tasks in its snapshot of the task set.
C5_ResizeCountsPartition ==
    ret.kind = "resized" =>
        /\ ret.requeued = ret.inv_pending
        /\ ret.migrated_tasks + ret.running_tasks + ret.completed_tasks = ret.total

\* C6 (its safety part): when a resize returns, every task that was running
\* when it was invoked is in the pool's task set.
C6_RunningStaysInTaskSet ==
    ret.kind = "resized" => ret.inv_running \subseteq pool[ret.id].tasks

\* C7 as stated: a resize(n) with n equal to the pool's capacity returns
\* success and changes nothing, whatever the pool's status.
C7_SameSizeAnyStatus ==
    [][(ret = NoRet /\ ret'.op = "resize" /\ ret'.n = pool[ret'.id].max_workers)
          => (ret'.success /\ UNCHANGED <<mpools, mtasks, pool, task, fut, exec>>)]_vars

\* C7: a resize(n) on a pool whose status is running, with n equal to the
\* pool's capacity, returns success and changes nothing: the pool (id, name,
\* status, capacity, executor, task set), every task (id, name, status,
\* future), the futures, the executors and the registry are as before the call.
C7_SameSizeNoOp ==
    [][(ret = NoRet /\ ret'.op = "resize" /\ ret'.inv_status = "running"
            /\ ret'.n = pool[ret'.id].max_workers)
          => (ret'.success /\ UNCHANGED <<mpools, mtasks, pool, task, fut, exec>>)]_vars

C7_Witness ==
    /\ ret.kind = "same_size"
    /\ ret.n = pool[ret.id].max_workers
    /\ pool[ret.id].tasks # {}

C9_RejectedAndStillFound ==
    [][/\ (ret = NoRet /\ ret'.op = "resize" /\ ret'.inv_status # "running")
            => (ret'.kind = "InvalidPoolState" /\ ~ret'.success
                /\ UNCHANGED <<pool, exec>>)
       /\ \A p \in mpools :
            (pool'[p].status # pool[p].status /\ pool'[p].status # "running")
                => p \in mpools']_vars

\* C10: no step of a resize changes a pool's id or name, the registry's pool
\* map, a task's id, name or submit time, or the global task index in which
\* get_task finds the task.
C10_ResizePreservesIdentity ==
    [][rz' # rz =>
          /\ mpools' = mpools
          /\ mtasks' = mtasks
          /\ \A p \in PoolIds : /\ pool'[p].pool_id = pool[p].pool_id
                                /\ pool'[p].name = pool[p].name
          /\ \A t \in TaskIds : /\ task'[t].task_id = task[t].task_id
                                /\ task'[t].name = task[t].name
                                /\ task'[t].submit_time = task[t].submit_time]_vars

C10_Witness ==
    /\ ret.kind = "resized"
    /\ ret.requeued # {}
    /\ ret.requeued \subseteq mtasks
    /\ ret.id \in mpools
    /\ \A t \in ret.requeued : task[t].submit_time < Now - 2

\* C11: resize requests on a pool are serialized (a resize in progress holds
\* the pool lock from its snapshot to its swap), the capacity left by a
\* successful resize is the value it requested, and when a resize that
\* migrated returns, every task of its snapshot that is not terminal is in the
\* pool's task set.
C11_ResizesSerialized ==
    /\ rz.pc # "idle" => pool[rz.pool].lock = "resize"
    /\ (ret.op = "resize" /\ ret.success) => pool[ret.id].max_workers = ret.n
    /\ ret.kind = "resized" =>
          \A t \in ret.all : ~is_done(task[t]) => t \in pool[ret.id].tasks

\* ======================= submit =======================
\* C12: when submit_task returns a task id, the task's future is queued on the
\* executor that is the pool's current one, that executor is not shut down,
\* the pool is running and no resize or shutdown of the pool is in progress
\* (the submit saw the pool before or after it, never in between).
C12_SubmitOnCurrentExecutor ==
    [][(ret = NoRet /\ ret'.op = "submit" /\ ret'.success) =>
          LET p == ret'.id
              t == ret'.value[1]
              f == task'[t].future
          IN /\ f # NoFuture
             /\ fut'[f].exec = pool'[p].executor
             /\ f \in {exec'[pool'[p].executor].queue[i] :
                          i \in 1..Len(exec'[pool'[p].executor].queue)}
             /\ ~exec'[pool'[p].executor].shutdown
             /\ pool'[p].status = "running"
             /\ pool'[p].lock = "free"]_vars

C12_Witness ==
    /\ ret.op = "submit"
    /\ ret.success
    /\ pool[ret.id].executor > 1
    /\ exec[1].shutdown

\* C13: a submit on a pool whose status is not running fails with the
\* invalid-pool-state error and changes neither the pool's task set nor the
\* global index (nor anything else), and every step that creates a task is
\* taken on a pool whose status is running.
C13_SubmitRejectedUnlessRunning ==
    [][/\ (ret = NoRet /\ ret'.op = "submit" /\ ret'.inv_status # "running")
            => (ret'.kind = "InvalidPoolState" /\ ~ret'.success
                /\ UNCHANGED <<mpools, mtasks, pool, task, fut, exec>>)
       /\ Len(task') > Len(task)
            => pool[task'[Len(task')].pool_id].status = "running"]_vars

C13_Witness ==
    /\ ret.op = "submit"
    /\ ret.kind = "InvalidPoolState"
    /\ pool[ret.id].status \in {"shutdown", "stopped", "terminated"}
    /\ pool[ret.id].tasks # {}

\* C15: the value returned by ManagedThreadPool.submit, passed to get_task of
\* the same pool, finds the submitted task.
C15_PoolSubmitReturnsTaskId ==
    (ret.op = "submit" /\ ret.success) =>
        PoolGetTask(pool[ret.id], ret.pool_value) = {Len(task)}

\* C14: a task that get_task finds and that list_tasks (of its pool and over
\* all pools) reports stays so in every step, except the steps of a successful
\* cancel, of a cleanup sweep and of the closing of a pool.
C14_PublishedUntilRemoved ==
    [][\/ \A t \in TaskIds :
             (MgrGetTask(t) /\ t \in ListAllTasks /\ t \in ListTasks(task[t].pool_id))
                => (MgrGetTask(t)' /\ t \in ListAllTasks' /\ t \in ListTasks(task[t].pool_id)')
       \/ CancelFinish
       \/ CleanupCompletedTasks
       \/ mpools' # mpools]_vars

\* ======================= cancel =======================
\* C16 (at the return): when cancel_task returns true for a task, the task's
\* work body has not been invoked and the task's status is cancelled.
C16_CancelledNeverRuns ==
    (ret.op = "cancel" /\ ret.kind = "true") =>
        (Runs(ret.id) = 0 /\ task[ret.id].status = "cancelled")

\* C17: cancel_task returns a boolean: it never ends with PoolNotFoundError or
\* with a KeyError.
C17_CancelNeverRaises ==
    ret.op = "cancel" => ret.kind \in {"true", "false"}

\* ======================= shutdown =======================
\* C18: a shutdown of a running pool first sets its status to shutdown; with
\* wait=true it ends with status terminated, and then every task in the pool's
\* task set is terminal; with wait=false it ends with status stopped; and a
\* pool that is not running (and not inside a resize or a shutdown) keeps its
\* status and its executor in every step.
C18_ShutdownStatusPath ==
    [][\A p \in PoolIds :
          /\ (sd.pc = "idle" /\ sd'.pc # "idle" /\ sd'.pool = p)
                => (pool[p].status = "running" /\ pool'[p].status = "shutdown")
          /\ (sd.pc = "drain" /\ sd'.pc = "idle" /\ sd.pool = p)
                => /\ pool[p].status = "shutdown"
                   /\ pool'[p].status = "terminated"
                   /\ \A t \in pool'[p].tasks : is_done(task'[t])
          /\ (sd.pc = "stop" /\ sd'.pc = "idle" /\ sd.pool = p)
                => (pool[p].status = "shutdown" /\ pool'[p].status = "stopped")
          /\ (pool[p].status # "running" /\ pool[p].lock = "free")
                => /\ pool'[p].status = pool[p].status
                   /\ pool'[p].executor = pool[p].executor]_vars

C20_ForceCloseReturnsActive ==
    [][\A p \in PoolIds :
          /\ (ret'.op = "force_close" /\ ret'.id = p) =>
                /\ {t \in TaskIds : task[t].pool_id = p /\ ~is_done(task[t])} \subseteq ret'.ids
                /\ p \notin mpools'
          /\ p \notin mpools => p \notin mpools']_vars

\* ======================= registry and its task index =======================
\* C21: when force_close_pool(p) returns, the global task index holds no task
\* whose pool id is p, whether the task was terminal or not at the call.
C21_ForceCloseEmptiesIndex ==
    [][\A p \in PoolIds :
          (ret'.op = "force_close" /\ ret'.id = p) =>
             \A t \in mtasks' : task'[t].pool_id # p]_vars

\* C22: in every state in which no registry operation is in progress, every
\* task in the global task index has a pool id that is held by the registry.
C22_IndexedTaskHasPool ==
    (mlock = "free" /\ rz.pc = "idle" /\ cn.pc = "idle" /\ sd.pc = "idle" /\ Quiet)
        => \A t \in mtasks : task[t].pool_id \in mpools

\* C23: in every reachable state no two pools held by the registry have the
\* same name; create_pool is refused with PoolAlreadyExists exactly for a name
\* that a held pool has, and the refusal leaves the pool map unchanged.
C23_UniquePoolNames ==
    /\ [](\A p, q \in mpools : p # q => pool[p].name # pool[q].name)
    /\ [][/\ ret'.kind = "PoolAlreadyExists" =>
               /\ \E p \in mpools : pool[p].name = GivenName(ret'.n)
               /\ mpools' = mpools /\ pool' = pool
          /\ Len(pool') > Len(pool) =>
               /\ \A p \in mpools : pool[p].name # pool'[Len(pool')].name
               /\ mpools' = mpools \cup {Len(pool')}]_vars

\* two pools are held and a create_pool with the name of one of them was refused
C23_Witness ==
    /\ Cardinality(mpools) >= 2
    /\ ret.kind = "PoolAlreadyExists"
    /\ \E p \in mpools : pool[p].name = GivenName(ret.n)

\* C24: a cleanup sweep (cleanup_completed_tasks, then clear_stopped_pools)
\* leaves no task that was terminal at its start in the global index or in
\* the task set of the task's own pool, and no pool that was stopped or
\* terminated in the registry; it removes no non-terminal task and no running
\* pool.
C24_SweepRemovesExactlyDone ==
    [][/\ ret'.op = "cleanup" =>
            \A t \in TaskIds :
               /\ is_done(task[t]) =>
                     (t \notin mtasks' /\ t \notin pool'[task[t].pool_id].tasks)
               /\ ~is_done(task[t]) =>
                     /\ t \in mtasks => t \in mtasks'
                     /\ t \in pool[task[t].pool_id].tasks => t \in pool'[task[t].pool_id].tasks
       /\ ret'.op = "clear_stopped_pools" =>
            \A p \in mpools :
               /\ pool[p].status \in {"stopped", "terminated"} => p \notin mpools'
               /\ pool[p].status = "running" => p \in mpools']_vars

\* ======================= work-body failures =======================
\* C25: a work body that raises does not make a submit fail (a submit fails
\* only on a pool that is not running or whose executor is shut down); the
\* task whose body raised is failed with the error recorded, and stays so;
\* the step in which the body raises leaves the pool, its status and its
\* executor as they were, so the pool goes on accepting and executing tasks.
C25_BodyFailureIsPerTask ==
    /\ [](\A f \in FutIds :
             (fut[f].wpc = "ran" /\ fut[f].raised) =>
                (task[fut[f].task].status = "failed" /\ task[fut[f].task].exception))
    /\ [][/\ \A f \in FutIds :
               (fut[f].wpc \in {"body", "callback"} /\ fut'[f].wpc # fut[f].wpc) =>
                   (pool' = pool /\ exec' = exec /\ mpools' = mpools /\ ret' = ret)
          /\ (ret'.op = "submit" /\ ~ret'.success) =>
               (pool[ret'.id].status # "running" \/ exec[pool[ret'.id].executor].shutdown)]_vars

\* ======================= pagination of the task list =======================
\* C26: for every requested page and per_page and every number of tasks, the
\* response has per_page within 1..100, total_pages at least 1 and
\* current_page within 1..total_pages; per_page=200 yields 100 and page=0
\* yields current_page 1.
C26_PaginationClamped ==
    ret.kind = "response" =>
        /\ ret.per_page \in 1..MaxPerPage
        /\ ret.total_pages >= 1
        /\ ret.current_page \in 1..ret.total_pages
        /\ (ret.req.per_page = IntArg(200) /\ ret.req.page.kind # "bad") => ret.per_page = 100
        /\ ret.req.page = IntArg(0) => ret.current_page = 1

\* per_page=200 was clamped to 100 on a list long enough to have a second
\* page, which the request asked for and got
C26_Witness ==
    /\ ret.kind = "response"
    /\ ret.req.per_page = IntArg(200) /\ ret.per_page = 100
    /\ ret.req.page = IntArg(2) /\ ret.current_page = 2
    /\ ret.total_items > 100

\* C27: for every number N of tasks, page and per_page, the returned items
\* are exactly the tasks at the 1-indexed positions start_item..end_item of
\* the full list, the first of which is the first of the current page;
\* total_pages is ceil(N/per_page), or 1 when N = 0; has_next iff
\* current_page < total_pages; has_prev iff current_page > 1; when N > 0,
\* end_item - start_item + 1 is the number of returned items.  12 tasks,
\* page 2, per_page 5 give tasks 6 to 10, 3 pages, has_next and has_prev.
C27_PageIsTheSlice ==
    ret.kind = "response" =>
        LET N == Len(ret.req.all_tasks)
            all == ret.req.all_tasks
        IN /\ ret.total_items = N
           /\ IF N = 0 THEN ret.total_pages = 1
              ELSE /\ ret.total_pages * ret.per_page >= N
                   /\ (ret.total_pages - 1) * ret.per_page < N
           /\ ret.has_next = (ret.current_page < ret.total_pages)
           /\ ret.has_prev = (ret.current_page > 1)
           /\ IF N = 0 THEN ret.data = <<>>
              ELSE /\ ret.start_item = (ret.current_page - 1) * ret.per_page + 1
                   /\ ret.start_item >= 1 /\ ret.end_item <= N
                   /\ Len(ret.data) = ret.end_item - ret.start_item + 1
                   /\ Len(ret.data) >= 1
                   /\ \A i \in 1..Len(ret.data) : ret.data[i] = all[ret.start_item + i - 1]
           /\ (N = 12 /\ ret.req.page = IntArg(2) /\ ret.req.per_page = IntArg(5)) =>
                 /\ ret.data = <<6, 7, 8, 9, 10>>
                 /\ ret.total_pages = 3 /\ ret.has_next /\ ret.has_prev

\* 12 tasks, page 2, per_page 5: the response holds tasks 6 to 10 of 3 pages
C27_Witness ==
    /\ ret.kind = "response"
    /\ ret.total_items = 12 /\ ret.req.page = IntArg(2) /\ ret.req.per_page = IntArg(5)
    /\ ret.start_item = 6 /\ ret.end_item = 10 /\ Len(ret.data) = 5

\* ======================= result retrieval =======================
\* C28: at the moment get_result returns a value to the caller, the task's
\* status is completed (is_done() is true): the caller never sees pending or
\* running right after a successful get_result.
C28_ResultImpliesCompleted ==
    (ret.op = "get_result" /\ ret.kind = "value") =>
        (task[ret.id].status = "completed" /\ is_done(task[ret.id]))

\* ======================= resize: task set and failure =======================
\* C29: a successful resize removes no task from the pool's task set: every
\* task that was in it before the resize (pending, running or terminal, or
\* one whose re-enqueue failed) is in it when resize returns.
C29_ResizeKeepsTaskSet ==
    [][\A p \in PoolIds :
          (ret'.op = "resize" /\ ret'.kind = "resized" /\ ret'.id = p) =>
             pool[p].tasks \subseteq pool'[p].tasks]_vars

\* C30: when resize reports success=False because of an internal failure, the
\* pool is as before the resize: running, same capacity, executor and task
\* set, every task with the future it had, and no work queued on a new
\* executor that was abandoned.
C30_FailedResizeRestores ==
    [][\A p \in PoolIds :
          (ret'.op = "resize" /\ ret'.kind = "InternalError" /\ ret'.id = p) =>
             /\ pool'[p].status = "running"
             /\ pool'[p].max_workers = pool[p].max_workers
             /\ pool'[p].executor = pool[p].executor
             /\ pool'[p].tasks = ret'.all
             /\ \A t \in pool[p].tasks : task'[t].future = task[t].future
             /\ \A e \in 1..Len(exec') : e \notin ExecIds => exec'[e].queue = <<>>]_vars

\* ======================= task timestamps and outcome =======================
\* C31: end_time is written exactly once per task, when the task enters a
\* terminal state: a completed, failed or cancelled task has end_time set and
\* it was written once; a task that is not terminal has no end_time.
C31_EndTimeOnce ==
    \A t \in TaskIds : task[t].end_time = IF is_done(task[t]) THEN 1 ELSE 0

\* C32: start_time is written exactly once per task, at its pending->running
\* transition, and never for a task that goes from pending to cancelled; also
\* when a resize has made two workers take the same task.
C32_StartTimeOnce ==
    /\ [](\A t \in TaskIds : task[t].start_time <= 1)
    /\ [][\A t \in TaskIds :
             task'[t].start_time # task[t].start_time =>
                (task[t].status = "pending" /\ task'[t].status = "running")]_vars

\* C33: in every reachable state a task has a result only if it is completed
\* and a captured error only if it is failed; no task has both, and a pending
\* or running task has neither.
C33_OutcomeMatchesStatus ==
    \A t \in TaskIds :
        /\ task[t].result => task[t].status = "completed"
        /\ task[t].exception => task[t].status = "failed"
        /\ ~(task[t].result /\ task[t].exception)

\* ======================= locks =======================
\* C34: no lock is held across a blocking wait: while close_pool(p, wait=True)
\* is blocked waiting for pool p's work to drain, the registry lock is free
\* (so create_pool, submit_task to another pool, list_pools or a sweep can
\* proceed), and so is the pool's lock.
C34_NoLockAcrossDrain ==
    sd.pc = "drain" => (mlock = "free" /\ pool[sd.pool].lock = "free")

\* C35: in every state in which no registry operation is in progress, for each
\* pool held by the registry the task ids of the global index that carry the
\* pool's id are exactly the pool's own task set.
C35_IndexMatchesPoolTasks ==
    (mlock = "free" /\ rz.pc = "idle" /\ cn.pc = "idle" /\ sd.pc = "idle" /\ Quiet)
        => \A p \in mpools : {t \in mtasks : task[t].pool_id = p} = pool[p].tasks

\* ---- the cleanup thread: ThreadPoolManager._start_cleanup_thread and
\* ThreadPoolManager.shutdown ----
\* 'while not self._stop_cleanup.wait(timeout=300)': the wait times out with the
\* event clear and the loop body begins
CleanupWake ==
    /\ cw.pc = "wait"
    /\ ~cw.stop
    /\ cw' = [cw EXCEPT !.pc = "cleanup"]
    /\ UNCHANGED <<mpools, mtasks, mlock, pool, task, fut, exec, rz, cn, sd, ret, gi, th>>

\* the wait returns True and cleanup_worker returns
CleanupExit ==
    /\ cw.pc = "wait"
    /\ cw.stop
    /\ cw' = [cw EXCEPT !.pc = "done"]
    /\ UNCHANGED <<mpools, mtasks, mlock, pool, task, fut, exec, rz, cn, sd, ret, gi, th>>

\* self.cleanup_completed_tasks() inside the try block
CleanupSweepTasks ==
    /\ cw.pc = "cleanup"
    /\ mlock = "free"
    /\ \A p \in mpools : pool[p].lock = "free"
    /\ mtasks' = {t \in mtasks : ~is_done(task[t])}
    /\ pool' = [p \in PoolIds |-> IF p \in mpools THEN PoolCleaned(pool[p]) ELSE pool[p]]
    /\ cw' = [cw EXCEPT !.pc = "clear"]
    /\ UNCHANGED <<mpools, mlock, task, fut, exec, rz, cn, sd, ret, gi, th>>

\* self.clear_stopped_pools() inside the try block, then back to the wait
CleanupSweepPools ==
    /\ cw.pc = "clear"
    /\ mlock = "free"
    /\ mpools' = mpools \ StoppedPools
    /\ cw' = [cw EXCEPT !.pc = "wait"]
    /\ UNCHANGED <<mtasks, mlock, pool, task, fut, exec, rz, cn, sd, ret, gi, th>>

\* where the loop goes when a sweep raises, if the exception were not caught
UncaughtPc == "done"

\* 'except Exception' logs the error and the loop goes back to its wait
CaughtPc == "wait"

\* one of the two calls raises an Exception (the index is iterated while
\* cancel_task, which takes no lock, deletes from it): the rest of the body is
\* skipped
CleanupSweepRaises ==
    /\ cw.pc \in {"cleanup", "clear"}
    /\ mlock = "free"
    /\ cw' = [cw EXCEPT !.pc = CaughtPc, !.raised = TRUE]
    /\ UNCHANGED <<mpools, mtasks, mlock, pool, task, fut, exec, rz, cn, sd, ret, gi, th>>

\* ThreadPoolManager.shutdown: _stop_cleanup.set() and the join with its
\* timeout, which returns whether or not the thread has ended
MgrShutdownSignal ==
    /\ ~cw.join
    /\ cw' = [cw EXCEPT !.stop = TRUE, !.join = TRUE]
    /\ UNCHANGED <<mpools, mtasks, mlock, pool, task, fut, exec, rz, cn, sd, ret, gi, th>>

\* ThreadPoolManager.shutdown, under the registry lock: close_pool(wait=False)
\* for every pool held, then pools.clear() and tasks.clear()
MgrShutdownClose ==
    /\ cw.join
    /\ mlock = "free"
    /\ sd.pc = "idle"
    /\ \A p \in mpools : pool[p].lock = "free"
    /\ pool' = [p \in PoolIds |->
                  IF p \in mpools /\ pool[p].status = "running"
                  THEN [pool[p] EXCEPT !.status = "stopped"] ELSE pool[p]]
    /\ exec' = [e \in ExecIds |->
                  IF \E p \in mpools : pool[p].status = "running" /\ pool[p].executor = e
                  THEN [exec[e] EXCEPT !.shutdown = TRUE] ELSE exec[e]]
    /\ mpools' = {}
    /\ mtasks' = {}
    /\ cw' = [cw EXCEPT !.join = FALSE]
    /\ UNCHANGED <<mlock, task, fut, rz, cn, sd, ret, gi, th>>

CleanupStep ==
    \/ CleanupWake
    \/ CleanupExit
    \/ CleanupSweepTasks
    \/ CleanupSweepPools
    \/ CleanupSweepRaises

LoopNext ==
    \/ Quiet /\ \E k \in PoolNameInputs, mw \in 1..MaxCap : CreatePool(k, mw)
    \/ Quiet /\ \E p \in PoolIds, k \in TaskNameInputs : SubmitTask(p, k)
    \/ Quiet /\ \E e \in ExecIds : WorkerTake(e)
    \/ Quiet /\ \E f \in FutIds : WorkerStart(f)
    \/ Quiet /\ \E f \in FutIds, ok \in BOOLEAN : WorkerComplete(f, ok)
    \/ Quiet /\ \E f \in FutIds : WorkerCallback(f)
    \/ Quiet /\ \E t \in TaskIds : CancelCall(t)
    \/ Quiet /\ CancelFinish
    \/ Quiet /\ \E p \in PoolIds, via \in Vias : ShutdownNoWait(p, via)
    \/ Quiet /\ ShutdownStopped
    \/ CleanupWake
    \/ CleanupExit
    \/ CleanupSweepTasks
    \/ CleanupSweepPools
    \/ CleanupSweepRaises
    \/ MgrShutdownSignal
    \/ MgrShutdownClose
    \/ Ack

\* every thread that is inside a call is scheduled again and again: the cleanup
\* thread gets the registry lock, and a shutdown(wait=False) or a cancel that
\* has begun goes on to return, and so does a caller with a returned value
LoopSpec ==
    /\ Init /\ [][LoopNext]_vars
    /\ SF_vars(CleanupStep)
    /\ SF_vars(Quiet /\ ShutdownStopped)
    /\ SF_vars(Quiet /\ CancelFinish)
    /\ WF_vars(Ack)

\* ======================= cleanup thread =======================
\* C36: the cleanup loop keeps running until it is signalled: it ends only
\* when the stop event is set, so a sweep that raises does not end it (the loop
\* is back in its wait); once the stop event is set no new sweep starts; and
\* from then on the loop eventually terminates.
C36_CleanupLoopUntilStopped ==
    /\ [][(cw'.pc = "done" /\ cw.pc # "done") => cw.stop]_vars
    /\ [][(cw'.raised /\ ~cw.raised) => cw'.pc = "wait"]_vars
    /\ [][(cw'.pc = "cleanup" /\ cw.pc # "cleanup") => ~cw.stop]_vars
    /\ (cw.stop ~> cw.pc = "done")

\* the loop has survived a raising sweep and ended after the stop signal
C36_Witness == cw.raised /\ cw.stop /\ cw.pc = "done"

\* ---- ManagedThreadPool.get_info: no lock is taken; the locals and the
\* entries of the dict are evaluated one after the other ----
\* active_tasks = self.get_active_tasks()
GetInfoBegin(p) ==
    /\ gi.pc = "idle"
    /\ gi' = [GiIdle EXCEPT !.pc = "all", !.pool = p,
                            !.active = Cardinality({t \in pool[p].tasks : ~is_done(task[t])})]
    /\ UNCHANGED <<mpools, mtasks, mlock, pool, task, fut, exec, rz, cn, sd, ret, cw, th>>

\* all_tasks = list(self.tasks.values())
GetInfoAll ==
    /\ gi.pc = "all"
    /\ gi' = [gi EXCEPT !.pc = "status", !.all = pool[gi.pool].tasks]
    /\ UNCHANGED <<mpools, mtasks, mlock, pool, task, fut, exec, rz, cn, sd, ret, cw, th>>

\* 'status': self.status.value
GetInfoStatus ==
    /\ gi.pc = "status"
    /\ gi' = [gi EXCEPT !.pc = "pending", !.status = pool[gi.pool].status]
    /\ UNCHANGED <<mpools, mtasks, mlock, pool, task, fut, exec, rz, cn, sd, ret, cw, th>>

\* 'pending_tasks': the tasks of all_tasks that are PENDING now
GetInfoPending ==
    /\ gi.pc = "pending"
    /\ gi' = [gi EXCEPT !.pc = "running",
                        !.pending = Cardinality(WithStatus(gi.all, "pending"))]
    /\ UNCHANGED <<mpools, mtasks, mlock, pool, task, fut, exec, rz, cn, sd, ret, cw, th>>

\* 'running_tasks': the tasks of all_tasks that are RUNNING now
GetInfoRunning ==
    /\ gi.pc = "running"
    /\ gi' = [gi EXCEPT !.pc = "completed",
                        !.running = Cardinality(WithStatus(gi.all, "running"))]
    /\ UNCHANGED <<mpools, mtasks, mlock, pool, task, fut, exec, rz, cn, sd, ret, cw, th>>

\* 'completed_tasks': the tasks of all_tasks that are done now; the dict is returned
GetInfoReturn ==
    /\ gi.pc = "completed"
    /\ ret' = [Ret("get_info", "returned", TRUE, gi.pool, 0) EXCEPT
                   !.status = gi.status,
                   !.total = Cardinality(gi.all),
                   !.active_tasks = gi.active,
                   !.pending_tasks = gi.pending,
                   !.running_tasks = gi.running,
                   !.completed_tasks = Cardinality({t \in gi.all : is_done(task[t])})]
    /\ gi' = GiIdle
    /\ UNCHANGED <<mpools, mtasks, mlock, pool, task, fut, exec, rz, cn, sd, cw, th>>

InfoNext ==
    \/ Quiet /\ \E k \in PoolNameInputs, mw \in 1..MaxCap : CreatePool(k, mw)
    \/ Quiet /\ \E p \in PoolIds, k \in TaskNameInputs : SubmitTask(p, k)
    \/ Quiet /\ \E e \in ExecIds : WorkerTake(e)
    \/ Quiet /\ \E f \in FutIds : WorkerStart(f)
    \/ Quiet /\ \E f \in FutIds : WorkerComplete(f, TRUE)
    \/ Quiet /\ \E f \in FutIds : WorkerCallback(f)
    \/ Quiet /\ \E p \in PoolIds, n \in 1..MaxCap : ResizeBegin(p, n, "pool")
    \/ Quiet /\ ResizePending
    \/ Quiet /\ ResizeRunning
    \/ Quiet /\ ResizeCompleted
    \/ Quiet /\ \E F \in SUBSET rz.pending : ResizeMigrate(F)
    \/ Quiet /\ ResizeSwap
    \/ Quiet /\ \E p \in PoolIds : GetInfoBegin(p)
    \/ Quiet /\ GetInfoAll
    \/ Quiet /\ GetInfoStatus
    \/ Quiet /\ GetInfoPending
    \/ Quiet /\ GetInfoRunning
    \/ Quiet /\ GetInfoReturn
    \/ Ack

InfoSpec == Init /\ [][InfoNext]_vars

\* ======================= pool snapshot =======================
\* C37: every PoolInfo returned by get_info is a consistent snapshot:
\* pending_tasks + running_tasks + completed_tasks = total_tasks, active_tasks =
\* pending_tasks + running_tasks, and the status it reports is never read while
\* a resize of the pool is in progress and has changed it.
C37_InfoIsSnapshot ==
    /\ [](ret.op = "get_info" =>
             /\ ret.pending_tasks + ret.running_tasks + ret.completed_tasks = ret.total
             /\ ret.active_tasks = ret.pending_tasks + ret.running_tasks)
    /\ [][(gi.pc = "status" /\ gi'.pc = "pending" /\ rz.pc # "idle" /\ rz.pool = gi.pool)
             => gi'.status = rz.inv_status]_vars

\* ---- the pool with its workers scheduled fairly ----
\* a step of a worker thread of some executor
WorkerStep ==
    \/ \E e \in ExecIds : WorkerTake(e)
    \/ \E f \in FutIds : WorkerStart(f)
    \/ \E f \in FutIds, ok \in BOOLEAN : WorkerComplete(f, ok)
    \/ \E f \in FutIds : WorkerCallback(f)

LiveNext ==
    \/ Quiet /\ \E k \in PoolNameInputs, mw \in 1..MaxCap : CreatePool(k, mw)
    \/ Quiet /\ \E p \in PoolIds, k \in TaskNameInputs : SubmitTask(p, k)
    \/ Quiet /\ \E e \in ExecIds : WorkerTake(e)
    \/ Quiet /\ \E f \in FutIds : WorkerStart(f)
    \/ Quiet /\ \E f \in FutIds, ok \in BOOLEAN : WorkerComplete(f, ok)
    \/ Quiet /\ \E f \in FutIds : WorkerCallback(f)
    \/ Quiet /\ \E p \in PoolIds, n \in 1..MaxCap : ResizeBegin(p, n, "pool")
    \/ Quiet /\ ResizePending
    \/ Quiet /\ ResizeRunning
    \/ Quiet /\ ResizeCompleted
    \/ Quiet /\ \E F \in SUBSET rz.pending : ResizeMigrate(F)
    \/ Quiet /\ ResizeSwap
    \/ Quiet /\ \E t \in TaskIds : CancelCall(t)
    \/ Quiet /\ CancelFinish
    \/ Quiet /\ \E p \in PoolIds : ShutdownNoWait(p, "pool")
    \/ Quiet /\ ShutdownStopped
    \/ Quiet /\ \E p \in PoolIds : ShutdownNow(p, "pool")
    \/ Quiet /\ CleanupCompletedTasks
    \/ Ack

\* work bodies return and the worker threads are scheduled again and again; a
\* caller takes the value returned to it
LiveSpec ==
    /\ Init /\ [][LiveNext]_vars
    /\ SF_vars(Quiet /\ WorkerStep)
    /\ WF_vars(Ack)

\* ======================= termination =======================
\* C38: every task accepted by submit eventually reaches a terminal status
\* (completed, failed or cancelled), whatever resize, cancel, shutdown(wait=False),
\* shutdown_now or cleanup operations interleave with it.
C38_AcceptedTaskEnds ==
    \A t \in 1..MaxTasks :
        (t \in TaskIds) ~> (t \in TaskIds /\ is_done(task[t]))

\* a task that a resize submitted a second time has ended in a pool that was
\* shut down afterwards
C38_Witness ==
    \E t \in TaskIds :
        /\ is_done(task[t])
        /\ Cardinality({f \in FutIds : fut[f].task = t}) >= 2
        /\ pool[task[t].pool_id].status = "stopped"

\* ---- the locks each operation takes, in the order of its 'with' blocks ----
Acq(l) == [a |-> "acquire", l |-> l]
Rel(l) == [a |-> "release", l |-> l]

\* executor.shutdown(wait=True): the caller waits for the workers, which take
\* no lock, to finish
Drain == [a |-> "drain", l |-> 0]

\* create_pool, list_pools, clear_stopped_pools, get_stats: the registry lock alone
RegistryOnly == <<Acq(0), Rel(0)>>

\* submit_task, resize_pool, force_close_pool, close_pool(wait=False),
\* cancel_pool_tasks, get_pool_resize_info: the registry lock, and inside it the
\* lock of pool p
RegistryThenPool(p) == <<Acq(0), Acq(p), Rel(p), Rel(0)>>

\* close_pool(p, wait=True): the drain happens inside both locks
ClosePoolWait(p) == <<Acq(0), Acq(p), Drain, Rel(p), Rel(0)>>

\* cleanup_completed_tasks, list_tasks(): the registry lock, and inside it the
\* lock of each pool in turn
RegistryThenEveryPool == <<Acq(0), Acq(1), Rel(1), Acq(2), Rel(2), Rel(0)>>

\* ThreadPoolManager.shutdown: the registry lock, and inside it close_pool
\* (which takes the registry lock again, then the pool's) for each pool
MgrShutdownLocks ==
    <<Acq(0), Acq(0), Acq(1), Rel(1), Rel(0), Acq(0), Acq(2), Rel(2), Rel(0), Rel(0)>>

\* a pool operation that calls into the registry while it holds the pool's lock
PoolCallsRegistry(p) == <<Acq(p), Acq(0), Rel(0), Rel(p)>>

\* submit, resize, shutdown(wait=False), shutdown_now, cancel_tasks, list_tasks,
\* cleanup_completed_tasks, get_resize_info called on the pool object: the
\* pool's lock alone
PoolOnly(p) == <<Acq(p), Rel(p)>>

\* shutdown(wait=True) called on the pool object
PoolShutdownWait(p) == <<Acq(p), Drain, Rel(p)>>

LockOps == {"create_pool", "submit_task", "close_pool", "close_pool_wait",
            "cleanup_completed_tasks", "shutdown", "pool.resize", "pool.shutdown_wait"}

LockProgram(op, p) ==
    CASE op = "create_pool" -> RegistryOnly
      [] op = "submit_task" -> RegistryThenPool(p)
      [] op = "close_pool" -> RegistryThenPool(p)
      [] op = "close_pool_wait" -> ClosePoolWait(p)
      [] op = "cleanup_completed_tasks" -> RegistryThenEveryPool
      [] op = "shutdown" -> MgrShutdownLocks
      [] op = "pool.resize" -> PoolOnly(p)
      [] OTHER -> PoolShutdownWait(p)

\* thread t is inside a call
InCall(t) == th.frame[t].op # "idle"

\* the next thing thread t does is to request lock l
Requests(t, l) ==
    /\ InCall(t)
    /\ Head(th.frame[t].todo) = Acq(l)

\* the pool locks thread t holds
HeldPools(t) == {p \in LockPools : th.owner[p] = t}

\* RLock.acquire returns for the owner and when the lock is free; a release
\* and the end of a drain never block
CanStep(t) ==
    /\ InCall(t)
    /\ LET s == Head(th.frame[t].todo) IN
         s.a = "acquire" => th.owner[s.l] \in {0, t}

\* thread t enters operation op on pool p
LockCall(t, op, p) ==
    /\ ~InCall(t)
    /\ th' = [th EXCEPT !.frame[t] = [op |-> op, todo |-> LockProgram(op, p), depth |-> 0]]
    /\ UNCHANGED <<mpools, mtasks, mlock, pool, task, fut, exec, rz, cn, sd, ret, cw, gi>>

\* thread t takes or releases the next lock of its operation (depth counts how
\* often it has entered the registry's RLock), or its drain ends; after the last
\* step the call returns
LockStep(t) ==
    /\ CanStep(t)
    /\ LET fr == th.frame[t]
           s == Head(fr.todo)
           d == IF s.l # 0 \/ s.a = "drain" THEN fr.depth
                ELSE IF s.a = "acquire" THEN fr.depth + 1 ELSE fr.depth - 1
           o == IF s.a = "drain" THEN th.owner[s.l]
                ELSE IF s.a = "acquire" THEN t
                ELSE IF s.l = 0 /\ d > 0 THEN t ELSE 0
       IN th' = [th EXCEPT !.owner[s.l] = o,
                           !.frame[t] = IF Len(fr.todo) = 1
                                        THEN [op |-> "idle", todo |-> <<>>, depth |-> 0]
                                        ELSE [op |-> fr.op, todo |-> Tail(fr.todo), depth |-> d]]
    /\ UNCHANGED <<mpools, mtasks, mlock, pool, task, fut, exec, rz, cn, sd, ret, cw, gi>>

LockNext ==
    \/ \E t \in Threads, op \in LockOps, p \in LockPools : LockCall(t, op, p)
    \/ \E t \in Threads : LockStep(t)

LockSpec == Init /\ [][LockNext]_vars

\* ======================= lock order =======================
\* C39: the system never deadlocks on its locks: no operation requests the
\* registry lock while it holds a pool lock (so an operation that holds both
\* took the registry lock first), and whenever some thread is inside a call,
\* some thread inside a call has an enabled step.
C39_NoLockDeadlock ==
    /\ \A t \in Threads : Requests(t, 0) => HeldPools(t) = {}
    /\ (\E t \in Threads : InCall(t)) => (\E t \in Threads : CanStep(t))

\* a registry operation holds the registry lock and waits for a pool lock that
\* a pool operation of another thread holds, while a third thread waits for
\* the registry lock
C39_Witness ==
    \E t, u, v \in Threads, p \in LockPools :
        /\ t # u /\ u # v /\ t # v
        /\ th.owner[0] = t /\ Requests(t, p)
        /\ th.owner[p] = u
        /\ Requests(v, 0)

\* ======================= sweep and resize =======================
\* C40: a cleanup sweep never removes a live pool from the registry: a pool
\* that a resize is working on (it was RUNNING when the resize was invoked, and
\* no shutdown can run on it before the resize returns) is still registered
\* after clear_stopped_pools.
C40_SweepKeepsLivePool ==
    [][ret'.op = "clear_stopped_pools" =>
          \A p \in mpools \ mpools' :
              ~(rz.pc # "idle" /\ rz.pool = p /\ rz.inv_status = "running")]_vars

====
